---- MODULE Spec2Model ----
(***************************************************************************)
(* Model of the weekly Telegram digest: the publisher's delivery state     *)
(* machine (src/src/publisher.py), the pipeline of main (src/src/main.py), *)
(* the collector (src/src/collector.py), the request builders              *)
(* (src/src/processing.py) and the pure text helpers they call.            *)
(*                                                                         *)
(* Texts are sequences of one-character strings.  The outbound budget of   *)
(* 3900 characters is scaled down to MaxLen so that texts longer than the  *)
(* budget can be enumerated.                                               *)
(***************************************************************************)
EXTENDS Integers, Sequences, FiniteSets, TLC

\* ------------------------------------------------------------------ bounds

\* Scaled stand-in for the default max_len of split_for_telegram (3900).
MaxLen == 6

\* Largest max_retries the delivery specification tries (the default is 3).
MaxRetries == 4

\* Default of send_markdown's max_retries, the value main uses.
DEFAULT_MAX_RETRIES == 3

\* Longest text handed to split_for_telegram and clean_markdown on their own.
MaxText == 7

\* Scaled stand-in for MAX_CHARS_PER_REQUEST (3500), the request budget.
MaxChars == 20

\* Longest message list handed to the selector and the request builder, and
\* longest message stream the collector reads.
MaxMsgs == 3

\* Scaled stand-in for the default days_back (7), and the largest tried.
MaxDays == 1

\* Scaled stand-in for the default min_chars (50), and the largest tried.
MinChars == 2

\* DEFAULT_TOP_MESSAGES, the limit build_summary_request selects with.
DEFAULT_TOP_MESSAGES == 25

\* ------------------------------------------------------------- characters

NL == "\n"
STAR == "*"
UNDER == "_"

\* The grave accent, which a TLA+ string cannot hold, as a token of its own.
GRAVE == "GRAVE"

\* Characters removed by the plain-text fallback (the class of line 93).
MarkupChars == {"*", "_", GRAVE, "[", "]", "(", ")"}

\* str.strip() removes leading and trailing whitespace.
IsSpace(c) == c \in {" ", NL}

RECURSIVE LStrip(_)
LStrip(s) ==
    IF s = <<>> THEN <<>>
    ELSE IF IsSpace(Head(s)) THEN LStrip(Tail(s))
    ELSE s

RECURSIVE RStrip(_)
RStrip(s) ==
    IF s = <<>> THEN <<>>
    ELSE IF IsSpace(s[Len(s)]) THEN RStrip(SubSeq(s, 1, Len(s) - 1))
    ELSE s

Strip(s) == RStrip(LStrip(s))

\* str.count(c)
RECURSIVE Count(_, _)
Count(s, c) ==
    IF s = <<>> THEN 0
    ELSE (IF Head(s) = c THEN 1 ELSE 0) + Count(Tail(s), c)

\* str.replace(c, empty) for every c of cs
RECURSIVE RemoveChars(_, _)
RemoveChars(s, cs) ==
    IF s = <<>> THEN <<>>
    ELSE (IF Head(s) \in cs THEN <<>> ELSE <<Head(s)>>) \o RemoveChars(Tail(s), cs)

\* str.split(sep) for a separator sep of one or two characters: the list of
\* pieces, cut left to right at non-overlapping occurrences of sep.
RECURSIVE SplitOn(_, _, _)
SplitOn(s, sep, cur) ==
    IF s = <<>> THEN <<cur>>
    ELSE IF Len(s) >= Len(sep) /\ SubSeq(s, 1, Len(sep)) = sep
         THEN <<cur>> \o SplitOn(SubSeq(s, Len(sep) + 1, Len(s)), sep, <<>>)
    ELSE SplitOn(Tail(s), sep, Append(cur, Head(s)))

\* sep.join(parts)
RECURSIVE Join(_, _)
Join(parts, sep) ==
    IF parts = <<>> THEN <<>>
    ELSE IF Len(parts) = 1 THEN parts[1]
    ELSE parts[1] \o sep \o Join(Tail(parts), sep)

\* ---------------------------------------------------------------- sanitizer

\* The end of the shortest match of  mm(.*?)mm  whose group starts at j: the
\* index of the closing pair, 0 when there is none ('.' matches no newline).
RECURSIVE FindClose(_, _, _)
FindClose(s, j, m) ==
    IF j + 1 > Len(s) THEN 0
    ELSE IF s[j] = m /\ s[j + 1] = m THEN j
    ELSE IF s[j] = NL THEN 0
    ELSE FindClose(s, j + 1, m)

\* re.sub(r'mm(.*?)mm', r'm\1m', s) scanning from index i.
RECURSIVE CollapseDouble(_, _, _)
CollapseDouble(s, i, m) ==
    IF i > Len(s) THEN <<>>
    ELSE IF /\ i + 1 <= Len(s)
            /\ s[i] = m
            /\ s[i + 1] = m
            /\ FindClose(s, i + 2, m) # 0
         THEN LET j == FindClose(s, i + 2, m)
              IN  <<m>> \o SubSeq(s, i + 2, j - 1) \o <<m>>
                      \o CollapseDouble(s, j + 2, m)
    ELSE <<s[i]>> \o CollapseDouble(s, i + 1, m)

\* A line from which only the asterisks are removed when a count is odd.
CleanLineKeepsUnderscores(line) ==
    IF Count(line, STAR) % 2 = 0 /\ Count(line, UNDER) % 2 = 0
    THEN line
    ELSE RemoveChars(line, {STAR})

\* One line of clean_markdown: kept when both marker counts are even,
\* otherwise both markers are removed from it.
CleanLine(line) ==
    IF Count(line, STAR) % 2 = 0 /\ Count(line, UNDER) % 2 = 0
    THEN line
    ELSE RemoveChars(RemoveChars(line, {STAR}), {UNDER})

clean_markdown(text) ==
    LET t1 == CollapseDouble(text, 1, STAR)
        t2 == CollapseDouble(t1, 1, UNDER)
        lines == SplitOn(t2, <<NL>>, <<>>)
        cleaned_lines == [k \in 1..Len(lines) |-> CleanLine(lines[k])]
    IN  Join(cleaned_lines, <<NL>>)

\* escape_markdown_v2: a backslash put before every special character (of
\* the alphabet in use, the markup characters).
BSLASH == "\\"
RECURSIVE escape_markdown_v2(_)
escape_markdown_v2(s) ==
    IF s = <<>> THEN <<>>
    ELSE (IF Head(s) \in MarkupChars THEN <<BSLASH, Head(s)>> ELSE <<Head(s)>>)
             \o escape_markdown_v2(Tail(s))

\* The markup characters escaped instead of removed.
strip_markup_escaped(text) == escape_markdown_v2(text)

\* plain_text: every markup character of the text removed.
strip_markup(text) == RemoveChars(text, MarkupChars)

\* ------------------------------------------------------------------ chunker

\* A hard cut whose slices are one character too long.
RECURSIVE HardCutLong(_, _, _)
HardCutLong(paragraph, start, max_len) ==
    IF start >= Len(paragraph) THEN <<>>
    ELSE LET end == IF start + max_len + 1 < Len(paragraph)
                    THEN start + max_len + 1 ELSE Len(paragraph)
         IN  <<SubSeq(paragraph, start + 1, end)>>
                 \o HardCutLong(paragraph, end, max_len)

\* The hard cut of an over-long paragraph into slices of max_len.
RECURSIVE HardCut(_, _, _)
HardCut(paragraph, start, max_len) ==
    IF start >= Len(paragraph) THEN <<>>
    ELSE LET end == IF start + max_len < Len(paragraph)
                    THEN start + max_len ELSE Len(paragraph)
         IN  <<SubSeq(paragraph, start + 1, end)>>
                 \o HardCut(paragraph, end, max_len)

\* The paragraph loop of split_for_telegram from paragraph k on; st is the
\* loop state [chunks, buffer].
RECURSIVE SplitLoop(_, _, _, _)
SplitLoop(paragraphs, k, st, max_len) ==
    IF k > Len(paragraphs) THEN st
    ELSE
      LET paragraph == paragraphs[k]
          candidate == IF st.buffer = <<>> THEN paragraph
                       ELSE Strip(st.buffer \o <<NL, NL>> \o paragraph)
          flushed   == IF st.buffer # <<>>
                       THEN Append(st.chunks, st.buffer) ELSE st.chunks
      IN  IF Len(candidate) <= max_len
          THEN SplitLoop(paragraphs, k + 1,
                         [chunks |-> st.chunks, buffer |-> candidate], max_len)
          ELSE IF Len(paragraph) <= max_len
          THEN SplitLoop(paragraphs, k + 1,
                         [chunks |-> flushed, buffer |-> paragraph], max_len)
          ELSE SplitLoop(paragraphs, k + 1,
                         [chunks |-> flushed \o HardCut(paragraph, 0, max_len),
                          buffer |-> <<>>], max_len)

split_for_telegram(text, max_len) ==
    IF Len(text) <= max_len THEN <<text>>
    ELSE LET paragraphs == SplitOn(text, <<NL, NL>>, <<>>)
             st == SplitLoop(paragraphs, 1,
                             [chunks |-> <<>>, buffer |-> <<>>], max_len)
         IN  IF st.buffer # <<>> THEN Append(st.chunks, st.buffer)
             ELSE st.chunks

\* ------------------------------------------------------------------- state

VARIABLES
    \* main
    pc,              \* position of main
    raw_lines,       \* the lines of the channels file
    channels,        \* list(iterate_channels(fh))
    ci,              \* index of the channel the gather loop is at
    channel_label,   \* label of the channel being processed
    entity,          \* the entity get_entity returned for it
    messages,        \* what fetch_channel_messages returned for it
    summaries,       \* gather_channel_summaries' list of (label, summary)
    overall_summary, \* the overview text
    plan,            \* the chunks main sends, in the order of its loops
    pidx,            \* index in plan of the chunk being delivered
    exit_code,       \* the process's exit status, -1 while it runs
    exit_how,        \* which path ended the run
    \* what the outside world has seen
    summ_calls,      \* the requests handed to the summarizer, in order
    resolved,        \* indices of the channels whose resolution succeeded
    fetched,         \* indices of the channels whose messages were read
    delivered,       \* plan indices whose deliver call returned
    wire,            \* plan indices in order of transmission (repeats merged)
    \* send_markdown
    sm_pc,           \* position inside send_markdown
    text,            \* its text argument
    payload,         \* cleaned_text
    max_retries,
    attempt,
    last_error,
    error_msg,
    outcome,         \* how the call ended
    calllog,         \* sends and sleeps of the call, in order
    last_reply,      \* the destination's answer to the last send
    sent_text,       \* the text of the last transmission
    \* one call of a pure helper on its own
    fn_pc,           \* "idle", "call" (arguments bound) or "returned"
    call,            \* the arguments of the call
    result           \* what the call returned

mainvars == <<pc, raw_lines, channels, ci, channel_label, entity, messages,
              summaries, overall_summary, plan, pidx, exit_code, exit_how,
              summ_calls, resolved, fetched, delivered, wire>>
smvars == <<sm_pc, text, payload, max_retries, attempt, last_error,
            error_msg, outcome, calllog, last_reply, sent_text>>
fnvars == <<fn_pc, call, result>>
vars == <<mainvars, smvars, fnvars>>

\* ------------------------------------------------------------- destination

Statuses == {200, 400, 403, 500}

\* What one send can meet.  kind "net": the post raised an httpx error.
\* kind "http": a response; json is whether response.json() yields an object
\* (FALSE: it raises, or data.get does), ok is data.get("ok"), fmt is whether
\* str(data).lower() holds "parse", "markdown" or "entity".  The code reads
\* ok only under status 200 and fmt only under status 400, so the flags vary
\* only there.
NetReply == [kind |-> "net", status |-> 0, json |-> FALSE, ok |-> FALSE,
             fmt |-> FALSE]
HttpReplies ==
    { [kind |-> "http", status |-> s, json |-> j, ok |-> o, fmt |-> f] :
        s \in Statuses, j \in BOOLEAN, o \in BOOLEAN, f \in BOOLEAN }
Replies ==
    {NetReply} \cup
    { r \in HttpReplies :
        /\ r.ok => (r.json /\ r.status = 200)
        /\ r.fmt => (r.json /\ r.status = 400) }

NoReply == [kind |-> "none", status |-> 0, json |-> FALSE, ok |-> FALSE,
            fmt |-> FALSE]
NoError == [src |-> "none", at |-> 0, status |-> 0]
NoOutcome == [kind |-> "none", detail |-> NoError]

\* ------------------------------------------------------------ send_markdown

\* if response.status_code == 200 and data.get("ok")
IsAcknowledged(r) == r.status = 200 /\ r.ok

\* if response.status_code == 400 and ("parse" in ... or "entity" in ...)
IsFormattingRejection(r) == r.status = 400 /\ r.fmt

\* elif response_plain.status_code == 403
IsPermissionError(r) == r.status = 403

\* if attempt < max_retries
MayRetry(a, n) == a < n

\* A backoff that grows linearly instead of doubling.
wait_time_linear(a) == 2 * a

\* wait_time = 2 ** attempt
wait_time(a) == 2 ^ a

\* for attempt in range(1, max_retries + 1): whether an iteration follows
\* iteration a.
HasNextAttempt(a, n) == a + 1 <= n

\* How the code classifies the answer to a rich send.
RichClass(r) ==
    IF r.kind = "net" THEN "net"
    ELSE IF ~r.json THEN "malformed"
    ELSE IF IsAcknowledged(r) THEN "ack"
    ELSE IF IsFormattingRejection(r) THEN "formatting"
    ELSE "transient"

\* How the code classifies the answer to the plain resend.
PlainClass(r) ==
    IF r.kind = "net" THEN "net"
    ELSE IF ~r.json THEN "malformed"
    ELSE IF IsAcknowledged(r) THEN "ack"
    ELSE IF IsPermissionError(r) THEN "forbidden"
    ELSE "rejected"

Event(ev, a, cls, d) == [ev |-> ev, at |-> a, cls |-> cls, delay |-> d]

\* The call send_markdown(chat_id, t, n) up to its first await: an empty
\* range(1, n + 1) falls through to the final raise.
SendMarkdownCall(t, n) ==
    /\ text' = t
    /\ payload' = clean_markdown(t)
    /\ max_retries' = n
    /\ attempt' = 1
    /\ last_error' = NoError
    /\ error_msg' = NoError
    /\ calllog' = <<>>
    /\ last_reply' = NoReply
    /\ sent_text' = <<>>
    /\ IF n >= 1
       THEN sm_pc' = "rich" /\ outcome' = NoOutcome
       ELSE /\ sm_pc' = "raised"
            /\ outcome' = [kind |-> "PublishError", detail |-> NoError]

\* The end of iteration attempt: the next iteration, or the raise after the
\* loop with the last error recorded.
LoopNext(err) ==
    IF HasNextAttempt(attempt, max_retries)
    THEN /\ attempt' = attempt + 1
         /\ sm_pc' = "rich"
         /\ outcome' = outcome
    ELSE /\ attempt' = attempt
         /\ sm_pc' = "raised"
         /\ outcome' = [kind |-> "PublishError", detail |-> err]

\* A failure recorded in last_error: sleep when attempts remain, then the
\* end of the iteration.
RetryOrRaise(err) ==
    /\ last_error' = err
    /\ IF MayRetry(attempt, max_retries)
       THEN sm_pc' = "sleep" /\ outcome' = outcome /\ attempt' = attempt
       ELSE LoopNext(err)

Return ==
    /\ sm_pc' = "returned"
    /\ outcome' = [kind |-> "ok", detail |-> NoError]
    /\ attempt' = attempt

Raise(kind, detail) ==
    /\ sm_pc' = "raised"
    /\ outcome' = [kind |-> kind, detail |-> detail]
    /\ attempt' = attempt

\* The rich send of one attempt and the handling of its answer.
RichSend(r) ==
    /\ sm_pc = "rich"
    /\ sent_text' = payload
    /\ last_reply' = r
    /\ calllog' = Append(calllog, Event("rich", attempt, RichClass(r), 0))
    /\ wire' = IF pidx > 0 /\ (wire = <<>> \/ wire[Len(wire)] # pidx)
               THEN Append(wire, pidx) ELSE wire
    /\ LET cls == RichClass(r)
           msg == [src |-> "http", at |-> attempt, status |-> r.status]
       IN  CASE cls = "net" ->
                  /\ RetryOrRaise([src |-> "net", at |-> attempt, status |-> 0])
                  /\ UNCHANGED error_msg
             [] cls = "malformed" ->
                  /\ Raise("OtherError", NoError)
                  /\ UNCHANGED <<last_error, error_msg>>
             [] cls = "ack" ->
                  /\ Return
                  /\ UNCHANGED <<last_error, error_msg>>
             [] cls = "formatting" ->
                  /\ sm_pc' = "plain"
                  /\ error_msg' = msg
                  /\ UNCHANGED <<last_error, outcome, attempt>>
             [] cls = "transient" ->
                  /\ error_msg' = msg
                  /\ RetryOrRaise(msg)
    /\ UNCHANGED <<text, payload, max_retries>>
    /\ UNCHANGED <<pc, raw_lines, channels, ci, channel_label, summaries,
                   overall_summary, plan, pidx, exit_code, exit_how,
                   summ_calls, resolved, fetched, delivered>>
    /\ UNCHANGED <<messages, entity, fnvars>>

\* The plain resend after a formatting rejection and the handling of its
\* answer; the send sits inside the try block of the loop.
PlainSend(r) ==
    /\ sm_pc = "plain"
    /\ sent_text' = strip_markup(text)
    /\ last_reply' = r
    /\ calllog' = Append(calllog, Event("plain", attempt, PlainClass(r), 0))
    /\ wire' = IF pidx > 0 /\ (wire = <<>> \/ wire[Len(wire)] # pidx)
               THEN Append(wire, pidx) ELSE wire
    /\ LET cls == PlainClass(r)
       IN  CASE cls = "net" ->
                  RetryOrRaise([src |-> "net", at |-> attempt, status |-> 0])
             [] cls = "malformed" ->
                  Raise("OtherError", NoError) /\ UNCHANGED last_error
             [] cls = "ack" ->
                  Return /\ UNCHANGED last_error
             [] cls = "forbidden" ->
                  /\ Raise("PublishError",
                           [src |-> "plain", at |-> attempt, status |-> r.status])
                  /\ UNCHANGED last_error
             [] cls = "rejected" ->
                  Raise("PublishError", error_msg) /\ UNCHANGED last_error
    /\ UNCHANGED <<text, payload, max_retries, error_msg>>
    /\ UNCHANGED <<pc, raw_lines, channels, ci, channel_label, summaries,
                   overall_summary, plan, pidx, exit_code, exit_how,
                   summ_calls, resolved, fetched, delivered>>
    /\ UNCHANGED <<messages, entity, fnvars>>

\* await asyncio.sleep(wait_time), then the next iteration of the loop.
BackoffSleep ==
    /\ sm_pc = "sleep"
    /\ calllog' = Append(calllog,
                         Event("sleep", attempt, "slept", wait_time(attempt)))
    /\ LoopNext(last_error)
    /\ UNCHANGED <<text, payload, max_retries, last_error, error_msg,
                   last_reply, sent_text>>
    /\ UNCHANGED mainvars
    /\ UNCHANGED fnvars

\* ---------------------------------------------------------------- collector

\* A CollectedMessage is a record [channel, message_id, date, text, link,
\* views]; a date is a number of days, larger is later.  NoViews stands for
\* views = None, NoLink for link = None, NoDate for a message without date.
NoViews == -1
NoLink == <<>>
NoDate == 0

\* The decimal digits of a number below ten.
Digit(n) == <<ToString(n)>>

\* now_utc, late enough for every date of a run to be positive.
Now == MaxDays + 2

\* cutoff = now_utc - dt.timedelta(days=days_back)
Cutoff(days_back) == Now - days_back

\* A cutoff test that also drops the messages dated at the cutoff.
IsTooOldInclusive(message_date, cutoff) == message_date <= cutoff

\* if message_date < cutoff
IsTooOld(message_date, cutoff) == message_date < cutoff

\* message_link: built from the entity's username and the message id (a
\* scaled stand-in for the https://t.me/ address), None without username.
message_link(entity_username, id) ==
    IF entity_username # <<>>
    THEN <<"/">> \o entity_username \o <<"/">> \o Digit(id)
    ELSE NoLink

\* The loop over the stream from item k on.  An item is a record
\* [is_message, id, date, message, views]; message = None is the empty text.
RECURSIVE FetchLoop(_, _, _, _, _, _, _)
FetchLoop(stream, k, collected, cutoff, min_chars, label, username) ==
    IF k > Len(stream) THEN collected
    ELSE
      LET message == stream[k]
          trimmed == Strip(message.message)
          skip    == FetchLoop(stream, k + 1, collected, cutoff, min_chars,
                               label, username)
      IN  IF ~message.is_message THEN skip
          ELSE IF message.date = NoDate THEN skip
          ELSE IF IsTooOld(message.date, cutoff) THEN collected
          ELSE IF Len(trimmed) < min_chars THEN skip
          ELSE FetchLoop(stream, k + 1,
                   Append(collected,
                          [channel    |-> label,
                           message_id |-> message.id,
                           date       |-> message.date,
                           text       |-> trimmed,
                           link       |-> message_link(username, message.id),
                           views      |-> message.views]),
                   cutoff, min_chars, label, username)

\* fetch_channel_messages(client, channel_entity, channel_label, days_back,
\* min_chars) over the stream client.iter_messages yields.
fetch_channel_messages(stream, username, label, days_back, min_chars) ==
    FetchLoop(stream, 1, <<>>, Cutoff(days_back), min_chars, label, username)

\* --------------------------------------------------------------- processing

\* msg.date.strftime(...): scaled to the one digit of the day.
strftime(date) == Digit(date)

\* msg.views or 0
ViewsOrZero(views) == IF views = NoViews THEN 0 ELSE views

\* _format_message: the header line with the date and, when truthy, the
\* views and the link, then the stripped text.
_format_message(msg) ==
    LET date_str   == strftime(msg.date)
        link_part  == IF msg.link # NoLink
                      THEN <<" ", "(">> \o msg.link \o <<")">> ELSE <<>>
        views_part == IF ViewsOrZero(msg.views) # 0
                      THEN <<" ", "[">> \o Digit(msg.views) \o <<"]">> ELSE <<>>
    IN  <<"-", " ", "[">> \o date_str \o <<"]">> \o views_part \o link_part
            \o <<NL>> \o Strip(msg.text)

\* A sort key that ignores the date.
sort_key_views_only(msg) == <<ViewsOrZero(msg.views), 0>>

\* sort_key: (msg.views or 0, msg.date)
sort_key(msg) == <<ViewsOrZero(msg.views), msg.date>>

\* Tuple order of two sort keys: k1 < k2.
KeyLess(k1, k2) == k1[1] < k2[1] \/ (k1[1] = k2[1] /\ k1[2] < k2[2])

\* sorted(..., reverse=True) is stable: msg goes behind every element whose
\* key is not smaller than its own.
RECURSIVE InsertDescending(_, _)
InsertDescending(sorted, msg) ==
    IF sorted = <<>> THEN <<msg>>
    ELSE IF KeyLess(sort_key(Head(sorted)), sort_key(msg))
         THEN <<msg>> \o sorted
    ELSE <<Head(sorted)>> \o InsertDescending(Tail(sorted), msg)

RECURSIVE SortedDescending(_, _)
SortedDescending(msgs, k) ==
    IF k = 0 THEN <<>>
    ELSE InsertDescending(SortedDescending(msgs, k - 1), msgs[k])

\* select_top_messages: sorted(messages, key=sort_key, reverse=True)[:limit]
\* for a limit >= 0.
select_top_messages(msgs, limit) ==
    LET ranked == SortedDescending(msgs, Len(msgs))
    IN  SubSeq(ranked, 1, IF limit < Len(ranked) THEN limit ELSE Len(ranked))

\* A running length that forgets the separator.
candidate_length_no_separator(current_chunk_length, formatted) ==
    current_chunk_length + Len(formatted)

\* candidate_length = current_chunk_length + len(formatted) + 2
candidate_length(current_chunk_length, formatted) ==
    current_chunk_length + Len(formatted) + 2

\* The loop over the formatted blocks from block k on: break at the first
\* block that exceeds the budget once a block has been accepted.
RECURSIVE FillLoop(_, _, _, _)
FillLoop(blocks, k, formatted_parts, current_chunk_length) ==
    IF k > Len(blocks) THEN formatted_parts
    ELSE LET cl == candidate_length(current_chunk_length, blocks[k])
         IN  IF cl > MaxChars /\ formatted_parts # <<>>
             THEN formatted_parts
             ELSE FillLoop(blocks, k + 1, Append(formatted_parts, blocks[k]), cl)

\* Scaled stand-in for the sentence sent when no message qualifies.
Placeholder == <<"n", "o", "n", "e">>

\* A body that is left empty when there is no block.
digest_left_empty(digest_text) == digest_text

\* if not digest_text: digest_text = <placeholder sentence>
digest_or_placeholder(digest_text) ==
    IF digest_text = <<>> THEN Placeholder ELSE digest_text

\* The formatted blocks of the selected messages, in rank order.
RankedBlocks(msgs) ==
    LET selected == select_top_messages(msgs, DEFAULT_TOP_MESSAGES)
    IN  [k \in 1..Len(selected) |-> _format_message(selected[k])]

\* The blocks build_summary_request accepts.
AcceptedBlocks(msgs) == FillLoop(RankedBlocks(msgs), 1, <<>>, 0)

\* build_summary_request: the title around the channel label, the accepted
\* blocks joined by blank lines (kind tells the builder of a request).
build_summary_request(channel, msgs) ==
    [kind  |-> "channel",
     title |-> <<"K", " ">> \o channel \o <<" ", "w">>,
     text  |-> digest_or_placeholder(Join(AcceptedBlocks(msgs), <<NL, NL>>))]

\* --------------------------------------------------------------------- main

\* Channel files the run may start from: empty, only a comment and a blank
\* line, one channel, two channels among blank and comment lines.
RawFiles ==
    { <<>>,
      << <<"#", "a">>, <<" ">> >>,
      << <<"a">> >>,
      << <<" ", "a", " ">>, <<"#", "b">>, <<>>, <<"b">> >> }

\* iterate_channels: the stripped lines that are neither empty nor comments.
RECURSIVE iterate_channels(_)
iterate_channels(lines) ==
    IF lines = <<>> THEN <<>>
    ELSE LET candidate == Strip(Head(lines))
         IN  IF candidate = <<>> \/ Head(candidate) = "#"
             THEN iterate_channels(Tail(lines))
             ELSE <<candidate>> \o iterate_channels(Tail(lines))

\* What load_config can do: return, or raise ConfigError (a required
\* setting or the channels file is missing).
ConfigOutcomes == {"ok", "ConfigError"}

\* What get_entity can return: the display name and username of the entity.
Entities ==
    { [title |-> <<"T">>, username |-> <<"u">>],
      [title |-> <<>>, username |-> <<"u">>],
      [title |-> <<>>, username |-> <<>>] }

\* No entity has been resolved.
NoEntity == [title |-> <<>>, username |-> <<>>]

\* channel_label = get_display_name(entity) or entity.username or channel_spec
LabelOf(e, channel_spec) ==
    IF e.title # <<>> THEN e.title
    ELSE IF e.username # <<>> THEN e.username
    ELSE channel_spec

\* Raw contents the summarizer may answer with (stripped by the client).
SummaryContents ==
    { <<"_", NL>>,
      <<"a", "a", NL, NL, "b", "b", "b">> }

\* What one summarizer call can meet: a 200 answer with a content, another
\* status, a 200 answer of another structure, an httpx error of the post.
SummarizerReplies ==
    { [kind |-> "ok", content |-> c] : c \in SummaryContents }
    \cup { [kind |-> k, content |-> <<>>] :
             k \in {"bad_status", "bad_structure", "net"} }

\* Scaled stand-ins for the banner and the label decoration of main.
Banner == <<"*", "D", "*", NL, NL>>
LabelPrefix(label) == <<"*">> \o label \o <<"*", NL>>

\* build_overview_request: "Channel k:" and the summary, joined by blank
\* lines.
build_overview_request(channel_summaries) ==
    [kind |-> "overview",
     title |-> <<"O">>,
     text |-> Join([k \in 1..Len(channel_summaries) |->
                      <<"K">> \o Digit(k) \o <<":", NL>> \o channel_summaries[k]],
                   <<NL, NL>>)]

TagChunks(chunks, m) ==
    [k \in 1..Len(chunks) |-> [msg |-> m, text |-> chunks[k]]]

\* The chunks of the channel messages from summary k on, in loop order.
RECURSIVE ChannelChunks(_, _)
ChannelChunks(sums, k) ==
    IF k > Len(sums) THEN <<>>
    ELSE LET message_text == LabelPrefix(sums[k].label) \o sums[k].summary
         IN  TagChunks(split_for_telegram(message_text, MaxLen), k)
                 \o ChannelChunks(sums, k + 1)

\* The two publishing loops in the other order: channel summaries, then the
\* overview.
PlanForChannelsFirst(overall, sums) ==
    ChannelChunks(sums, 1)
        \o TagChunks(split_for_telegram(Banner \o overall, MaxLen), 0)

\* Everything main sends, in the order of its two publishing loops: the
\* overview (message 0), then each channel summary.
PlanFor(overall, sums) ==
    TagChunks(split_for_telegram(Banner \o overall, MaxLen), 0)
        \o ChannelChunks(sums, 1)

\* Exit status of an uncaught exception leaving asyncio.run(main()).
UNCAUGHT_EXIT == 1

Exit(code, how) ==
    /\ pc' = "exited"
    /\ exit_code' = code
    /\ exit_how' = how

\* config = load_config(), except ConfigError: SystemExit(1)
LoadConfig(o) ==
    /\ pc = "load_config"
    /\ CASE o = "ok" -> pc' = "read_channels" /\ UNCHANGED <<exit_code, exit_how>>
         [] o = "ConfigError" -> Exit(1, "config")
    /\ UNCHANGED <<raw_lines, channels, ci, channel_label, summaries,
                   overall_summary, plan, pidx, summ_calls, resolved,
                   fetched, delivered, wire>>
    /\ UNCHANGED smvars
    /\ UNCHANGED <<messages, entity, fnvars>>

\* channels = list(iterate_channels(fh)); if not channels: SystemExit(2)
ReadChannels ==
    /\ pc = "read_channels"
    /\ channels' = iterate_channels(raw_lines)
    /\ IF channels' = <<>>
       THEN Exit(2, "empty")
       ELSE pc' = "start_client" /\ UNCHANGED <<exit_code, exit_how>>
    /\ UNCHANGED <<raw_lines, ci, channel_label, summaries, overall_summary,
                   plan, pidx, summ_calls, resolved, fetched, delivered,
                   wire>>
    /\ UNCHANGED smvars
    /\ UNCHANGED <<messages, entity, fnvars>>

\* await client.start(): it returns, or raises something main does not catch.
StartClient(ok) ==
    /\ pc = "start_client"
    /\ IF ok
       THEN pc' = "resolve" /\ ci' = 1 /\ UNCHANGED <<exit_code, exit_how>>
       ELSE Exit(UNCAUGHT_EXIT, "uncaught") /\ UNCHANGED ci
    /\ UNCHANGED <<raw_lines, channels, channel_label, summaries,
                   overall_summary, plan, pidx, summ_calls, resolved,
                   fetched, delivered, wire>>
    /\ UNCHANGED smvars
    /\ UNCHANGED <<messages, entity, fnvars>>

\* A gather loop that returns after its first channel.
AfterChannelReturnsEarly(i) == "overview"

\* Where the gather loop goes after channel ci: the next channel, or out of
\* the loop to the overview.
AfterChannel(i) == IF i < Len(channels) THEN "resolve" ELSE "overview"

\* A failed resolution that breaks out of the loop instead of continuing.
ResolveFailsBreaks ==
    /\ pc = "resolve"
    /\ pc' = "overview"
    /\ ci' = ci + 1
    /\ UNCHANGED <<raw_lines, channels, channel_label, summaries,
                   overall_summary, plan, pidx, exit_code, exit_how,
                   summ_calls, resolved, fetched, delivered, wire>>
    /\ UNCHANGED smvars
    /\ UNCHANGED <<messages, entity, fnvars>>

\* entity = await client.get_entity(channel_spec), which fails: log, continue
ResolveFails ==
    /\ pc = "resolve"
    /\ pc' = AfterChannel(ci)
    /\ ci' = ci + 1
    /\ UNCHANGED <<raw_lines, channels, channel_label, summaries,
                   overall_summary, plan, pidx, exit_code, exit_how,
                   summ_calls, resolved, fetched, delivered,
                   wire>>
    /\ UNCHANGED smvars
    /\ UNCHANGED <<messages, entity, fnvars>>

\* entity = await client.get_entity(channel_spec), which succeeds
Resolve(e) ==
    /\ pc = "resolve"
    /\ entity' = e
    /\ channel_label' = LabelOf(e, channels[ci])
    /\ resolved' = Append(resolved, ci)
    /\ pc' = "fetch"
    /\ UNCHANGED <<raw_lines, channels, ci, summaries, overall_summary, plan,
                   pidx, exit_code, exit_how, summ_calls, fetched, delivered,
                   wire>>
    /\ UNCHANGED smvars
    /\ UNCHANGED <<messages, fnvars>>

\* What iter_messages yields for the channels of a run.  Channel a holds a
\* recent message, a recent one that is too short and one older than the
\* cutoff; every other channel has an empty history.
ChannelHistory(channel_spec) ==
    IF channel_spec = <<"a">>
    THEN << [is_message |-> TRUE, id |-> 3, date |-> Now,
             message |-> <<"a", "b", "c">>, views |-> NoViews],
            [is_message |-> TRUE, id |-> 2, date |-> Now,
             message |-> <<>>, views |-> NoViews],
            [is_message |-> TRUE, id |-> 1, date |-> Cutoff(MaxDays) - 1,
             message |-> <<"a", "b", "c">>, views |-> NoViews] >>
    ELSE <<>>

\* messages = await fetch_channel_messages(...) with the default min_chars:
\* it returns, or raises something main does not catch.
Fetch(ok) ==
    /\ pc = "fetch"
    /\ fetched' = Append(fetched, ci)
    /\ IF ok
       THEN /\ pc' = "summarize"
            /\ messages' = fetch_channel_messages(
                                ChannelHistory(channels[ci]), entity.username,
                                channel_label, MaxDays, MinChars)
            /\ UNCHANGED <<exit_code, exit_how>>
       ELSE Exit(UNCAUGHT_EXIT, "uncaught") /\ UNCHANGED messages
    /\ UNCHANGED <<raw_lines, channels, ci, channel_label, summaries,
                   overall_summary, plan, pidx, summ_calls, resolved,
                   delivered, wire>>
    /\ UNCHANGED smvars
    /\ UNCHANGED <<entity, fnvars>>

\* How a summarizer call ends: _summarize_single raises SummarizationError
\* on a status other than 200 and on a KeyError/IndexError of the answer; an
\* httpx error of the post is not caught.
SummarizerEnd(rep) ==
    CASE rep.kind = "ok" -> "ok"
      [] rep.kind \in {"bad_status", "bad_structure"} -> "SummarizationError"
      [] rep.kind = "net" -> "OtherError"

\* request = build_summary_request(...); summary_text = (await
\* summarizer.summarize([request]))[0]; summaries.append(...)
Summarize(rep) ==
    /\ pc = "summarize"
    /\ summ_calls' = Append(summ_calls,
                             build_summary_request(channel_label, messages))
    /\ CASE SummarizerEnd(rep) = "ok" ->
              /\ summaries' = Append(summaries,
                     [label |-> channel_label, summary |-> Strip(rep.content)])
              /\ pc' = AfterChannel(ci)
              /\ ci' = ci + 1
              /\ UNCHANGED <<exit_code, exit_how>>
         [] SummarizerEnd(rep) = "SummarizationError" ->
              Exit(3, "summarization") /\ UNCHANGED <<summaries, ci>>
         [] SummarizerEnd(rep) = "OtherError" ->
              Exit(UNCAUGHT_EXIT, "uncaught") /\ UNCHANGED <<summaries, ci>>
    /\ UNCHANGED <<raw_lines, channels, channel_label, overall_summary, plan,
                   pidx, resolved, fetched, delivered, wire>>
    /\ UNCHANGED smvars
    /\ UNCHANGED <<messages, entity, fnvars>>

\* The frame of a send_markdown call that has ended: its locals are gone,
\* the exception it raised (outcome) is what the caller holds.
CallFrameGone ==
    /\ sm_pc' = "idle"
    /\ text' = <<>>
    /\ payload' = <<>>
    /\ attempt' = 0
    /\ last_error' = NoError
    /\ error_msg' = NoError
    /\ calllog' = <<>>
    /\ last_reply' = NoReply
    /\ sent_text' = <<>>
    /\ UNCHANGED <<max_retries, outcome>>

\* The publishing loops from plan index i on: the next send_markdown call,
\* or the end of main when no chunk is left.
PublishFrom(p, i) ==
    IF i <= Len(p)
    THEN /\ pidx' = i
         /\ pc' = "publish"
         /\ SendMarkdownCall(p[i].text, DEFAULT_MAX_RETRIES)
         /\ UNCHANGED <<exit_code, exit_how>>
    ELSE /\ pidx' = i
         /\ Exit(0, "success")
         /\ CallFrameGone

\* overall_request = build_overview_request(...); the summarizer call; then
\* the first chunk of the overview is handed to the publisher.
Overview(rep) ==
    /\ pc = "overview"
    /\ summ_calls' = Append(summ_calls,
           build_overview_request([k \in 1..Len(summaries) |-> summaries[k].summary]))
    /\ CASE SummarizerEnd(rep) = "ok" ->
              /\ overall_summary' = Strip(rep.content)
              /\ plan' = PlanFor(overall_summary', summaries)
              /\ PublishFrom(plan', 1)
         [] SummarizerEnd(rep) = "SummarizationError" ->
              /\ Exit(3, "summarization")
              /\ UNCHANGED <<overall_summary, plan, pidx>>
              /\ UNCHANGED smvars
         [] SummarizerEnd(rep) = "OtherError" ->
              /\ Exit(UNCAUGHT_EXIT, "uncaught")
              /\ UNCHANGED <<overall_summary, plan, pidx>>
              /\ UNCHANGED smvars
    /\ UNCHANGED <<raw_lines, channels, ci, channel_label, summaries,
                   resolved, fetched, delivered, wire>>
    /\ UNCHANGED <<messages, entity, fnvars>>

\* send_markdown returned: the for loops go on to the next chunk.
ChunkDelivered ==
    /\ pc = "publish"
    /\ sm_pc = "returned"
    /\ delivered' = Append(delivered, pidx)
    /\ PublishFrom(plan, pidx + 1)
    /\ UNCHANGED <<raw_lines, channels, ci, channel_label, summaries,
                   overall_summary, plan, summ_calls, resolved, fetched, wire>>
    /\ UNCHANGED <<messages, entity, fnvars>>

\* A PublishError that is swallowed: the loops go on to the next chunk.
PublishFailedSwallowed ==
    /\ pc = "publish"
    /\ sm_pc = "raised"
    /\ PublishFrom(plan, pidx + 1)
    /\ UNCHANGED <<raw_lines, channels, ci, channel_label, summaries,
                   overall_summary, plan, summ_calls, resolved, fetched,
                   delivered, wire>>
    /\ UNCHANGED <<messages, entity, fnvars>>

\* send_markdown raised: except PublishError: SystemExit(4); anything else
\* leaves main uncaught.
PublishFailed ==
    /\ pc = "publish"
    /\ sm_pc = "raised"
    /\ IF outcome.kind = "PublishError"
       THEN Exit(4, "publish")
       ELSE Exit(UNCAUGHT_EXIT, "uncaught")
    /\ CallFrameGone
    /\ UNCHANGED <<raw_lines, channels, ci, channel_label, summaries,
                   overall_summary, plan, pidx, summ_calls, resolved,
                   fetched, delivered, wire>>
    /\ UNCHANGED <<messages, entity, fnvars>>

\* ----------------------------------------------------------- specifications

SmInit ==
    /\ sm_pc = "idle"
    /\ text = <<>>
    /\ payload = <<>>
    /\ max_retries = DEFAULT_MAX_RETRIES
    /\ attempt = 0
    /\ last_error = NoError
    /\ error_msg = NoError
    /\ outcome = NoOutcome
    /\ calllog = <<>>
    /\ last_reply = NoReply
    /\ sent_text = <<>>

FnIdle ==
    /\ fn_pc = "idle"
    /\ call = <<>>
    /\ result = <<>>

MainIdle ==
    /\ channels = <<>>
    /\ entity = NoEntity
    /\ messages = <<>>
    /\ ci = 0
    /\ channel_label = <<>>
    /\ summaries = <<>>
    /\ overall_summary = <<>>
    /\ plan = <<>>
    /\ pidx = 0
    /\ exit_code = -1
    /\ exit_how = "running"
    /\ summ_calls = <<>>
    /\ resolved = <<>>
    /\ fetched = <<>>
    /\ delivered = <<>>
    /\ wire = <<>>

\* A run of main.
Init ==
    /\ pc = "load_config"
    /\ raw_lines \in RawFiles
    /\ MainIdle
    /\ SmInit
    /\ FnIdle

Next ==
    \/ \E o \in ConfigOutcomes : LoadConfig(o)
    \/ ReadChannels
    \/ \E ok \in BOOLEAN : StartClient(ok)
    \/ ResolveFails
    \/ \E e \in Entities : Resolve(e)
    \/ \E ok \in BOOLEAN : Fetch(ok)
    \/ \E rep \in SummarizerReplies : Summarize(rep)
    \/ \E rep \in SummarizerReplies : Overview(rep)
    \/ \E r \in Replies : RichSend(r)
    \/ \E r \in Replies : PlainSend(r)
    \/ BackoffSleep
    \/ ChunkDelivered
    \/ PublishFailed

Spec == Init /\ [][Next]_vars

\* One call of send_markdown on its own, for every max_retries up to
\* MaxRetries.
DeliverTexts ==
    { <<"a">>, <<"*", "a">>, <<"_", "a", "_", "(">> }

InitDeliver ==
    /\ pc = "deliver"
    /\ raw_lines = <<>>
    /\ MainIdle
    /\ SmInit
    /\ FnIdle

DeliverCall(t, n) ==
    /\ pc = "deliver"
    /\ sm_pc = "idle"
    /\ SendMarkdownCall(t, n)
    /\ UNCHANGED mainvars
    /\ UNCHANGED fnvars

NextDeliver ==
    \/ \E t \in DeliverTexts, n \in 0..MaxRetries : DeliverCall(t, n)
    \/ \E r \in Replies : RichSend(r)
    \/ \E r \in Replies : PlainSend(r)
    \/ BackoffSleep

SpecDeliver == InitDeliver /\ [][NextDeliver]_vars

\* Every sequence over S of length at most n.
SeqsUpTo(S, n) == UNION { [1..k -> S] : k \in 0..n }

\* The state of a specification that calls one pure helper: main and the
\* publisher are not running.
HelperInit ==
    /\ pc = "helper"
    /\ raw_lines = <<>>
    /\ MainIdle
    /\ SmInit
    /\ result = <<>>

\* One call split_for_telegram(text, max_len), for every text of at most
\* MaxText letters, spaces and newlines and every max_len in 1..MaxLen.
SplitTexts == SeqsUpTo({"a", " ", NL}, MaxText)

InitSplit ==
    /\ HelperInit
    /\ fn_pc = "call"
    /\ call \in [text : SplitTexts, max_len : 1..MaxLen]

SplitCall ==
    /\ fn_pc = "call"
    /\ result' = split_for_telegram(call.text, call.max_len)
    /\ fn_pc' = "returned"
    /\ UNCHANGED <<call, mainvars, smvars>>

NextSplit == SplitCall

SpecSplit == InitSplit /\ [][NextSplit]_vars

\* Message lists handed to the selector and the request builder: the k-th
\* message of a list has message_id k, as the messages of one channel have
\* distinct ids; the link is the one fetch_channel_messages builds.
RawMessages(views, texts) ==
    [views : views, date : 1..2, text : texts]

WithIds(raw, username) ==
    [k \in 1..Len(raw) |->
        [channel    |-> <<"T">>,
         message_id |-> k,
         date       |-> raw[k].date,
         text       |-> raw[k].text,
         link       |-> message_link(username, k),
         views      |-> raw[k].views]]

\* One call select_top_messages(messages, limit), for every list of at most
\* MaxMsgs messages and every limit from 0 to one more than that.
InitSelect ==
    /\ HelperInit
    /\ fn_pc = "call"
    /\ call \in { [messages |-> WithIds(raw, <<>>), limit |-> limit] :
                     raw \in SeqsUpTo(RawMessages({NoViews, 0, 3}, {<<"a">>}),
                                      MaxMsgs),
                     limit \in 0..(MaxMsgs + 1) }

SelectCall ==
    /\ fn_pc = "call"
    /\ result' = select_top_messages(call.messages, call.limit)
    /\ fn_pc' = "returned"
    /\ UNCHANGED <<call, mainvars, smvars>>

NextSelect == SelectCall

SpecSelect == InitSelect /\ [][NextSelect]_vars

\* Texts of the messages of a request: one character, two characters
\* behind a space, and a text that no budget holds.
MessageTexts ==
    { <<"a">>, <<" ", "b", "b">>, [i \in 1..(MaxChars - 4) |-> "c"] }

\* One call build_summary_request(channel, messages), for every list of at
\* most MaxMsgs messages of a channel with or without username.
InitRequest ==
    /\ HelperInit
    /\ fn_pc = "call"
    /\ call \in { [channel |-> <<"T">>, messages |-> WithIds(raw, username)] :
                     raw \in SeqsUpTo(RawMessages({NoViews, 3}, MessageTexts),
                                      MaxMsgs),
                     username \in {<<>>, <<"u">>} }

BuildRequestCall ==
    /\ fn_pc = "call"
    /\ result' = build_summary_request(call.channel, call.messages)
    /\ fn_pc' = "returned"
    /\ UNCHANGED <<call, mainvars, smvars>>

NextRequest == BuildRequestCall

SpecRequest == InitRequest /\ [][NextRequest]_vars

\* What iter_messages can yield when the cutoff is at day cutoff: an object
\* that is no Message, a message without date, and messages dated before,
\* at and after the cutoff whose text is None, one character between
\* spaces, or two characters.
StreamItems(cutoff) ==
    { [is_message |-> FALSE, date |-> NoDate, message |-> <<>>],
      [is_message |-> TRUE, date |-> NoDate, message |-> <<"a", "b">>] }
    \cup [is_message : {TRUE},
          date : {cutoff - 1, cutoff, Now},
          message : {<<>>, <<" ", "a", " ">>, <<"a", "b">>}]

\* The k-th item of a stream has id k.
StreamOf(items) ==
    [k \in 1..Len(items) |->
        [is_message |-> items[k].is_message,
         id         |-> k,
         date       |-> items[k].date,
         message    |-> items[k].message,
         views      |-> NoViews]]

\* One call fetch_channel_messages(...), for every stream of at most MaxMsgs
\* items, every days_back up to MaxDays and every min_chars up to MinChars.
InitFetch ==
    /\ HelperInit
    /\ fn_pc = "call"
    /\ \E d \in 0..MaxDays, m \in 0..MinChars :
         \E items \in SeqsUpTo(StreamItems(Cutoff(d)), MaxMsgs) :
             call = [stream |-> StreamOf(items), days_back |-> d,
                     min_chars |-> m]

FetchCall ==
    /\ fn_pc = "call"
    /\ result' = fetch_channel_messages(call.stream, <<"u">>, <<"T">>,
                                         call.days_back, call.min_chars)
    /\ fn_pc' = "returned"
    /\ UNCHANGED <<call, mainvars, smvars>>

NextFetch == FetchCall

SpecFetch == InitFetch /\ [][NextFetch]_vars

\* One call clean_markdown(text), for every text of at most MaxText letters,
\* emphasis markers and newlines.
CleanTexts == SeqsUpTo({"a", STAR, UNDER, NL}, MaxText)

InitClean ==
    /\ HelperInit
    /\ fn_pc = "call"
    /\ call \in [text : CleanTexts]

CleanCall ==
    /\ fn_pc = "call"
    /\ result' = clean_markdown(call.text)
    /\ fn_pc' = "returned"
    /\ UNCHANGED <<call, mainvars, smvars>>

NextClean == CleanCall

SpecClean == InitClean /\ [][NextClean]_vars

\* ------------------------------------------------------------------- claims

\* Positions of the call's log that hold an event of kind ev.
EventsOf(ev) == { i \in DOMAIN calllog : calllog[i].ev = ev }

\* Number of rich sends logged before position i.
RichBefore(i) == Cardinality({ j \in EventsOf("rich") : j < i })

CallEnded == sm_pc \in {"returned", "raised"}

\* s = <<1, 2, ..., Len(s)>>
IsIota(s) == \A i \in DOMAIN s : s[i] = i

\* C1: a send_markdown call that has ended either returned after a send
\* acknowledged with status 200 and ok = true, or raised PublishError;
\* nothing else escapes, whatever the destination answered.
C1_OnlyOkOrPublishError ==
    CallEnded =>
        \/ /\ sm_pc = "returned"
           /\ outcome.kind = "ok"
           /\ last_reply.status = 200
           /\ last_reply.ok
        \/ /\ sm_pc = "raised"
           /\ outcome.kind = "PublishError"

\* C2: after a plain-text resend no further send of any kind is made, so a
\* call makes at most one plain send; a call whose rich sends were rejected
\* for formatting and whose plain send was acknowledged made one rich and one
\* plain send.
C2_PlainResendEndsDelivery ==
    /\ \A i \in EventsOf("plain") :
           \A j \in DOMAIN calllog :
               j > i => calllog[j].ev \notin {"rich", "plain"}
    /\ Cardinality(EventsOf("plain")) <= 1
    /\ ( /\ sm_pc = "returned"
         /\ calllog[Len(calllog)].ev = "plain"
         /\ \A i \in EventsOf("rich") : calllog[i].cls = "formatting" )
           => /\ Cardinality(EventsOf("rich")) = 1
              /\ Cardinality(EventsOf("plain")) = 1

\* The answer to the last send was a response whose body is no JSON object.
LastReplyMalformed == last_reply.kind = "http" /\ ~last_reply.json

\* The rich sends of the call so far failed only transiently: each answer
\* was a network error or a non-success response not identified as a
\* formatting problem (a 403 or 500 whatever its body, a 200 or 400 whose
\* JSON body neither acknowledges nor names a formatting problem); the last
\* one may be the acknowledgement.
OnlyTransientFailures ==
    /\ EventsOf("plain") = {}
    /\ \A i \in EventsOf("rich") :
           \/ calllog[i].cls \in {"transient", "net"}
           \/ /\ calllog[i].cls = "malformed"
              /\ i = Len(calllog)
              /\ last_reply.status \in {403, 500}
           \/ i = Len(calllog) /\ calllog[i].cls = "ack"

\* C3: with max_retries = N >= 1 and only transient failures, at most N rich
\* sends are made; the call returns right after the first acknowledged
\* attempt; and when all N attempts failed it raises PublishError carrying
\* the failure detail of attempt N.
C3_BoundedRetries ==
    (max_retries >= 1 /\ OnlyTransientFailures) =>
        /\ Cardinality(EventsOf("rich")) <= max_retries
        /\ \A i \in EventsOf("rich") : calllog[i].at = RichBefore(i) + 1
        /\ (calllog # <<>> /\ calllog[Len(calllog)].cls = "ack")
               => sm_pc = "returned"
        /\ ( /\ CallEnded
             /\ Cardinality(EventsOf("rich")) = max_retries
             /\ calllog[Len(calllog)].cls # "ack" )
               => /\ sm_pc = "raised"
                  /\ outcome.kind = "PublishError"
                  /\ outcome.detail.at = max_retries
                  /\ outcome.detail.src \in {"http", "net"}

\* C4: a plain resend answered with status 403 makes the call raise
\* PublishError at once: the call has ended, nothing is slept or sent after.
C4_PermissionErrorIsFatal ==
    ( /\ calllog # <<>>
      /\ calllog[Len(calllog)].ev = "plain"
      /\ last_reply.kind = "http"
      /\ last_reply.status = 403 )
        => /\ sm_pc = "raised"
           /\ outcome.kind = "PublishError"

\* C5: the delay slept after the k-th failed attempt is 2^k seconds, for a
\* failing response as for a network error; the delays of a call increase
\* strictly; an attempt after the first follows a sleep; and nothing is
\* slept after the max_retries-th failed attempt.
C5_ExponentialBackoff ==
    /\ \A i \in EventsOf("sleep") :
           LET k == RichBefore(i)
           IN  /\ calllog[i].delay = 2 ^ k
               /\ k >= 1
               /\ k < max_retries
               /\ calllog[i - 1].ev \in {"rich", "plain"}
               /\ calllog[i - 1].cls \in {"transient", "net"}
               /\ i < Len(calllog) =>
                      /\ calllog[i + 1].ev = "rich"
                      /\ calllog[i + 1].at = k + 1
    /\ \A i, j \in EventsOf("sleep") :
           i < j => calllog[i].delay < calllog[j].delay
    /\ \A i \in EventsOf("rich") : i > 1 => calllog[i - 1].ev = "sleep"
    /\ sm_pc = "raised" => calllog = <<>> \/ calllog[Len(calllog)].ev # "sleep"

\* C5's case: a call that slept 2 s after a failing response and 4 s after a
\* network error, and then was acknowledged.
C5_Witness ==
    /\ sm_pc = "returned"
    /\ Len(calllog) = 5
    /\ calllog[1].cls = "transient"
    /\ calllog[2].ev = "sleep" /\ calllog[2].delay = 2
    /\ calllog[3].cls = "net"
    /\ calllog[4].ev = "sleep" /\ calllog[4].delay = 4

\* C3 and C4 restricted to destinations whose every response body is a JSON
\* object: the two statements hold there.
C3_HoldsForJsonBodies == LastReplyMalformed \/ C3_BoundedRetries
C4_HoldsForJsonBodies == LastReplyMalformed \/ C4_PermissionErrorIsFatal

\* The texts of the chunks of plan p that belong to message m, in plan order.
RECURSIVE TextsOf(_, _)
TextsOf(p, m) ==
    IF p = <<>> THEN <<>>
    ELSE (IF Head(p).msg = m THEN <<Head(p).text>> ELSE <<>>)
             \o TextsOf(Tail(p), m)

Publishing == pc = "publish" \/ exit_how \in {"success", "publish"}

\* C6: the destination receives the chunks of the overview first, then the
\* chunks of each recorded summary in recording order, each message's chunks
\* in split order; a chunk is first transmitted only after the deliver call
\* of the chunk before it has returned.
C6_OrderedDelivery ==
    /\ IsIota(wire)
    /\ IsIota(delivered)
    /\ Len(wire) <= Len(plan)
    /\ Len(delivered) <= Len(wire)
    /\ Len(wire) <= Len(delivered) + 1
    /\ pc = "publish" =>
           /\ Len(wire) \in {pidx - 1, pidx}
           /\ sm_pc # "rich" \/ attempt > 1 \/ Len(delivered) = pidx - 1
           /\ calllog # <<>> =>
                  sent_text \in {clean_markdown(plan[pidx].text),
                                 strip_markup(plan[pidx].text)}
    /\ \A i, j \in DOMAIN plan : i < j => plan[i].msg <= plan[j].msg
    /\ Publishing =>
           /\ TextsOf(plan, 0) =
                  split_for_telegram(Banner \o overall_summary, MaxLen)
           /\ \A k \in 1..Len(summaries) :
                  TextsOf(plan, k) =
                      split_for_telegram(
                          LabelPrefix(summaries[k].label) \o summaries[k].summary,
                          MaxLen)
           /\ \A i \in DOMAIN plan : plan[i].msg \in 0..Len(summaries)

\* C6's case: a run that delivered an overview of several chunks and the
\* several chunks of each of two channel summaries.
C6_Witness ==
    /\ exit_how = "success"
    /\ Len(summaries) = 2
    /\ Len(delivered) = Len(plan)
    /\ Len(TextsOf(plan, 0)) >= 2
    /\ Len(TextsOf(plan, 1)) >= 2
    /\ Len(TextsOf(plan, 2)) >= 2

\* C7: every summarizer call of the run, one per resolved channel and the
\* overview call, has completed before anything is sent; a run ended by a
\* SummarizationError has sent nothing, and the failed call was made once.
C7_SummariesBeforeSends ==
    /\ (wire # <<>> \/ sm_pc # "idle" \/ delivered # <<>>) =>
           /\ ci = Len(channels) + 1
           /\ Len(summaries) = Len(resolved)
           /\ Len(summ_calls) = Len(resolved) + 1
    /\ exit_how = "summarization" =>
           /\ wire = <<>>
           /\ delivered = <<>>
           /\ sm_pc = "idle"
           /\ plan = <<>>
           /\ Len(summ_calls) = Len(summaries) + 1

\* C7's other case: a run of two resolved channels whose overview call
\* raised SummarizationError.
C7_WitnessAborted ==
    /\ exit_how = "summarization"
    /\ exit_code = 3
    /\ Len(summaries) = 2
    /\ Len(summ_calls) = 3

\* C7's case: all three summarizer calls completed and the first send is
\* under way.
C7_Witness ==
    /\ pc = "publish"
    /\ wire = <<1>>
    /\ Len(summ_calls) = 3

\* C8: once a deliver call has raised PublishError nothing more is sent: the
\* chunks delivered are a prefix of the plan, each delivered once, and a
\* chunk is transmitted only when every chunk before it was delivered.
C8_AbortOnPublishError ==
    /\ IsIota(delivered)
    /\ Len(delivered) <= Len(plan)
    /\ \A i \in DOMAIN wire : \A j \in 1..(wire[i] - 1) :
           j <= Len(delivered) /\ delivered[j] = j
    /\ exit_how = "publish" =>
           /\ exit_code = 4
           /\ outcome.kind = "PublishError"
           /\ sm_pc = "idle"
           /\ Len(delivered) = pidx - 1
           /\ Len(delivered) < Len(plan)
           /\ Len(wire) <= pidx

\* C8's case: a run whose third chunk raised PublishError after two chunks
\* were delivered.
C8_Witness ==
    /\ exit_how = "publish"
    /\ delivered = <<1, 2>>
    /\ wire = <<1, 2, 3>>
    /\ Len(plan) >= 5

\* The number of requests of the given kind among the summarizer calls.
CallsOfKind(kind) ==
    Cardinality({ k \in DOMAIN summ_calls : summ_calls[k].kind = kind })

\* C9: a channel whose resolution fails is skipped, with no collection and
\* no summarizer call, and the loop goes on: the recorded summaries are
\* those of the resolved channels in list order, the summarizer is called
\* once per resolved channel in that order and, after the loop, once for
\* the overview of all recorded summaries.
C9_SkipUnresolved ==
    /\ \A i, j \in DOMAIN resolved : i < j => resolved[i] < resolved[j]
    /\ \A i \in DOMAIN resolved : resolved[i] \in 1..Len(channels)
    /\ \A i \in DOMAIN fetched : fetched[i] = resolved[i]
    /\ Len(fetched) <= Len(resolved)
    /\ Len(summaries) <= Len(fetched)
    /\ Len(resolved) <= Len(summaries) + 1
    /\ \A k \in DOMAIN summaries :
           /\ summ_calls[k].kind = "channel"
           /\ summ_calls[k].title =
                  build_summary_request(summaries[k].label, <<>>).title
           /\ summaries[k].label \in
                  { LabelOf(e, channels[resolved[k]]) : e \in Entities }
    /\ CallsOfKind("channel") <= Len(fetched)
    /\ CallsOfKind("overview") <= 1
    /\ pc \in {"resolve", "fetch", "summarize"} =>
           /\ ci \in 1..Len(channels)
           /\ \A i \in DOMAIN resolved : resolved[i] <= ci
           /\ Len(summ_calls) = Len(summaries)
    /\ pc = "overview" =>
           /\ ci = Len(channels) + 1
           /\ Len(summaries) = Len(resolved)
           /\ Len(summ_calls) = Len(resolved)
    /\ Publishing =>
           /\ ci = Len(channels) + 1
           /\ Len(summaries) = Len(resolved)
           /\ Len(summ_calls) = Len(resolved) + 1
           /\ summ_calls[Len(summ_calls)] =
                  build_overview_request(
                      [k \in 1..Len(summaries) |-> summaries[k].summary])

\* C9's case: the first of two channels failed to resolve, the second was
\* summarized, and the overview call was made after it.
C9_Witness ==
    /\ pc = "publish"
    /\ Len(channels) = 2
    /\ resolved = <<2>>
    /\ fetched = <<2>>
    /\ Len(summaries) = 1
    /\ Len(summ_calls) = 2

\* C10: a run ends in one of five outcomes with pairwise distinct exit codes:
\* 1 configuration error, 2 empty channel list, 3 SummarizationError,
\* 4 PublishError, 0 only when every planned chunk was delivered.
C10_FiveOutcomes ==
    pc = "exited" =>
        /\ exit_how \in {"config", "empty", "summarization", "publish", "success"}
        /\ exit_code = 1 <=> exit_how = "config"
        /\ exit_code = 2 <=> exit_how = "empty"
        /\ exit_code = 3 <=> exit_how = "summarization"
        /\ exit_code = 4 <=> exit_how = "publish"
        /\ exit_code = 0 <=> exit_how = "success"
        /\ exit_code = 0 => Len(delivered) = Len(plan) /\ plan # <<>>

\* The part of C10 that holds: status 0 is reported only by a run that
\* delivered every planned chunk.
C10_SuccessMeansAllDelivered ==
    exit_code = 0 =>
        /\ exit_how = "success"
        /\ plan # <<>>
        /\ IsIota(delivered)
        /\ Len(delivered) = Len(plan)

\* "".join(parts)
RECURSIVE Concat(_)
Concat(parts) ==
    IF parts = <<>> THEN <<>> ELSE Head(parts) \o Concat(Tail(parts))

\* C11: for every text and every max_len > 0 the call returns, and every
\* chunk it returns has length <= max_len, on the short-input path, for a
\* flushed buffer and for the slices of a hard cut.
C11_ChunksWithinMaxLen ==
    fn_pc = "returned" =>
        \A i \in DOMAIN result : Len(result[i]) <= call.max_len

\* C11's case: a text longer than max_len whose first paragraph was flushed
\* from the buffer and whose second paragraph was cut into full slices.
C11_Witness ==
    /\ fn_pc = "returned"
    /\ Len(call.text) > call.max_len
    /\ Len(result) >= 3
    /\ Len(result[1]) < call.max_len
    /\ Len(result[2]) = call.max_len
    /\ Len(result[3]) = call.max_len

\* C11's other case: the short-input path, which returns the text itself.
C11_WitnessShort ==
    /\ fn_pc = "returned"
    /\ Len(call.text) = call.max_len
    /\ result = <<call.text>>

\* C12: for every text and every max_len > 0 the returned sequence is not
\* empty and none of its chunks is the empty string.
C12_NoEmptyChunk ==
    fn_pc = "returned" =>
        /\ result # <<>>
        /\ \A i \in DOMAIN result : result[i] # <<>>

\* The part of C12 that holds: a text longer than max_len never yields an
\* empty chunk (it may yield no chunk at all).
C12_NoEmptyChunkOfLongText ==
    (fn_pc = "returned" /\ Len(call.text) > call.max_len) =>
        \A i \in DOMAIN result : result[i] # <<>>

\* A text with its blank-line paragraph separators deleted.
WithoutSeparators(s) == Join(SplitOn(s, <<NL, NL>>, <<>>), <<>>)

\* C13: the chunks, concatenated in order and with the blank-line
\* separators deleted, are the original text with its blank-line separators
\* deleted: no other character is lost or moved.
C13_NoContentLost ==
    fn_pc = "returned" =>
        WithoutSeparators(Concat(result)) = WithoutSeparators(call.text)

\* The part of C13 that holds: whatever is lost is whitespace, and what is
\* kept is kept in order.
C13_OnlyWhitespaceLost ==
    fn_pc = "returned" =>
        RemoveChars(Concat(result), {" ", NL})
            = RemoveChars(call.text, {" ", NL})

\* The rank the claims give a message: its view count, a missing one
\* counting as 0, then its date.
RankOf(msg) == <<IF msg.views = NoViews THEN 0 ELSE msg.views, msg.date>>

RankLess(r1, r2) == r1[1] < r2[1] \/ (r1[1] = r2[1] /\ r1[2] < r2[2])

\* Message i of msgs comes before message j in the ranking: its rank is
\* higher, or the ranks are equal and it comes first in the input.
Outranks(msgs, i, j) ==
    \/ RankLess(RankOf(msgs[j]), RankOf(msgs[i]))
    \/ RankOf(msgs[i]) = RankOf(msgs[j]) /\ i < j

\* The top-ranked message of a non-empty list.
TopRanked(msgs) ==
    msgs[CHOOSE i \in DOMAIN msgs :
             \A j \in DOMAIN msgs : j # i => Outranks(msgs, i, j)]

\* C14: the body build_summary_request returns is within the request
\* budget, except when the formatted block of the top-ranked message alone
\* exceeds the budget; the body is then exactly that block.
C14_BodyWithinBudget ==
    fn_pc = "returned" =>
        \/ Len(result.text) <= MaxChars
        \/ /\ call.messages # <<>>
           /\ Len(_format_message(TopRanked(call.messages))) > MaxChars
           /\ result.text = _format_message(TopRanked(call.messages))

\* C14's case: of several messages the top-ranked one alone exceeds the
\* budget, and the body is its block and nothing else.
C14_Witness ==
    /\ fn_pc = "returned"
    /\ Len(call.messages) >= 2
    /\ Len(result.text) > MaxChars
    /\ result.text = _format_message(TopRanked(call.messages))

\* C14's other case: three blocks of which two fit the budget.
C14_WitnessCut ==
    /\ fn_pc = "returned"
    /\ Len(call.messages) = 3
    /\ Len(result.text) <= MaxChars
    /\ Len(result.text) > Len(_format_message(TopRanked(call.messages)))

\* C15: every request handed to the summarizer during a run, the requests
\* of the channels and the overview request, has a body within the request
\* budget.
C15_RequestsWithinBudget ==
    \A k \in DOMAIN summ_calls : Len(summ_calls[k].text) <= MaxChars

\* The smaller of two numbers.
Min(a, b) == IF a < b THEN a ELSE b

\* C16: for every message list and every limit >= 0, select_top_messages
\* returns min(limit, n) messages of the input, each once; they are ordered
\* by view count (a missing one counting as 0), then by date, both
\* non-increasing, messages equal on both keys in input order; and every
\* message left out comes after every returned one in that ranking.
C16_TopByViewsThenDate ==
    fn_pc = "returned" =>
        LET msgs == call.messages
            pos(k) == result[k].message_id
        IN  /\ Len(result) = Min(call.limit, Len(msgs))
            /\ \A k \in DOMAIN result :
                   pos(k) \in DOMAIN msgs /\ result[k] = msgs[pos(k)]
            /\ \A i, j \in DOMAIN result :
                   i < j => Outranks(msgs, pos(i), pos(j))
            /\ \A u \in DOMAIN msgs :
                   (\A k \in DOMAIN result : pos(k) # u) =>
                       \A k \in DOMAIN result : Outranks(msgs, pos(k), u)

\* C16's case: three messages cut to two, where the views decide between
\* the first and the others, a missing view count ties with a count of 0,
\* and the date decides that tie.
C16_Witness ==
    /\ fn_pc = "returned"
    /\ Len(call.messages) = 3
    /\ call.limit = 2
    /\ call.messages[1].views = NoViews
    /\ call.messages[2].views = 0
    /\ call.messages[3].views = 3
    /\ call.messages[1].date < call.messages[2].date
    /\ result = <<call.messages[3], call.messages[2]>>

\* C16's other case: messages equal on both keys keep their input order.
C16_WitnessStable ==
    /\ fn_pc = "returned"
    /\ Len(call.messages) = 3
    /\ call.limit = 3
    /\ RankOf(call.messages[1]) = RankOf(call.messages[3])
    /\ RankLess(RankOf(call.messages[1]), RankOf(call.messages[2]))
    /\ result = <<call.messages[2], call.messages[1], call.messages[3]>>

\* s starts with p.
IsPrefix(p, s) == Len(p) <= Len(s) /\ SubSeq(s, 1, Len(p)) = p

\* C17: build_summary_request returns for every message list, and its body
\* is never empty: it is the placeholder sentence exactly when the list is
\* empty, and otherwise starts with the formatted block of the top-ranked
\* message.
C17_BodyNeverEmpty ==
    fn_pc = "returned" =>
        /\ result.text # <<>>
        /\ result.text = Placeholder <=> call.messages = <<>>
        /\ call.messages # <<>> =>
               IsPrefix(_format_message(TopRanked(call.messages)),
                        result.text)

\* C17's case: no message was collected and the body is the placeholder.
C17_Witness ==
    /\ fn_pc = "returned"
    /\ call.messages = <<>>
    /\ result.text = Placeholder

\* C17's other case: of three messages only the block of the top-ranked
\* one, which is not the first of the list, makes the body.
C17_WitnessTopBlock ==
    /\ fn_pc = "returned"
    /\ Len(call.messages) = 3
    /\ TopRanked(call.messages) # call.messages[1]
    /\ result.text = _format_message(TopRanked(call.messages))
    /\ Len(result.text) <= MaxChars

\* The body made of the first n of the ranked blocks.
BodyOfFirst(blocks, n) == Join(SubSeq(blocks, 1, n), <<NL, NL>>)

\* The body is made of the first n blocks, n >= 1, and n is the largest
\* number of leading blocks whose body, plus slack characters, is within
\* the budget (one block is accepted whatever its length).
LongestPrefixWithin(blocks, body, slack) ==
    \E n \in 1..Len(blocks) :
        /\ body = BodyOfFirst(blocks, n)
        /\ n > 1 => Len(body) + slack <= MaxChars
        /\ n < Len(blocks) =>
               Len(BodyOfFirst(blocks, n + 1)) + slack > MaxChars

\* C19: the accepted blocks are the longest prefix of the ranked blocks
\* whose joined body does not exceed the budget, with at least one block:
\* the next block is cut only if the body with it would be longer than the
\* budget, and no block behind a cut block is included.
C19_LongestPrefixWithinBudget ==
    (fn_pc = "returned" /\ call.messages # <<>>) =>
        LongestPrefixWithin(RankedBlocks(call.messages), result.text, 0)

\* What holds instead of C19: the accepted blocks are the longest prefix
\* whose joined body plus two characters does not exceed the budget.
C19_LongestPrefixByRunningLength ==
    (fn_pc = "returned" /\ call.messages # <<>>) =>
        LongestPrefixWithin(RankedBlocks(call.messages), result.text, 2)

\* The lines the per-line step of clean_markdown works on: those of the text
\* with its doubled markers made single.
LinesToClean(t) ==
    SplitOn(CollapseDouble(CollapseDouble(t, 1, STAR), 1, UNDER), <<NL>>, <<>>)

\* A line with every marker of an odd count removed, each marker judged on
\* its own.
WithoutOddMarkers(line) ==
    LET odd == { m \in {STAR, UNDER} : Count(line, m) % 2 = 1 }
    IN  RemoveChars(line, odd)

\* C18: clean_markdown treats each line and each of the two markers on its
\* own: a marker of even count keeps all its occurrences on the line, a
\* marker of odd count loses all of them, and nothing else changes.
C18_MarkersJudgedSeparately ==
    fn_pc = "returned" =>
        LET lines == LinesToClean(call.text)
        IN  result = Join([k \in 1..Len(lines) |-> WithoutOddMarkers(lines[k])],
                          <<NL>>)

\* The part of C18 that holds: the lines are treated one by one, a line
\* whose two marker counts are even is kept as it is, and a line is never
\* changed otherwise than by removing markers.
C18_LinesJudgedSeparately ==
    fn_pc = "returned" =>
        LET lines == LinesToClean(call.text)
            out   == SplitOn(result, <<NL>>, <<>>)
        IN  /\ Len(out) = Len(lines)
            /\ \A k \in DOMAIN lines :
                   /\ RemoveChars(out[k], {STAR, UNDER})
                          = RemoveChars(lines[k], {STAR, UNDER})
                   /\ (Count(lines[k], STAR) % 2 = 0
                          /\ Count(lines[k], UNDER) % 2 = 0) => out[k] = lines[k]
                   /\ Count(lines[k], STAR) % 2 = 1 => Count(out[k], STAR) = 0
                   /\ Count(lines[k], UNDER) % 2 = 1 => Count(out[k], UNDER) = 0

\* Item k of the stream is a dated message older than the cutoff.
OlderThanCutoff(stream, k, cutoff) ==
    /\ stream[k].is_message
    /\ stream[k].date # NoDate
    /\ stream[k].date < cutoff

\* The items the claim has collected: messages that come before the first
\* message older than the cutoff, carry a date and whose trimmed text has
\* at least min_chars characters.
Qualifying(stream, cutoff, min_chars) ==
    { k \in DOMAIN stream :
        /\ \A j \in 1..k : ~OlderThanCutoff(stream, j, cutoff)
        /\ stream[k].is_message
        /\ stream[k].date # NoDate
        /\ Len(Strip(stream[k].message)) >= min_chars }

\* C20: fetch_channel_messages returns, in stream order, exactly the
\* messages that come before the first message older than now - days_back,
\* carry a date and have a trimmed text of at least min_chars characters;
\* each returned message has such a text and a date not older than the
\* cutoff, and nothing behind the first older message is collected.
C20_CollectsUntilFirstOld ==
    fn_pc = "returned" =>
        LET stream == call.stream
            cutoff == Now - call.days_back
            want   == Qualifying(stream, cutoff, call.min_chars)
        IN  /\ Len(result) = Cardinality(want)
            /\ \A i \in DOMAIN result :
                   /\ result[i].message_id \in want
                   /\ result[i].text = Strip(stream[result[i].message_id].message)
                   /\ result[i].date = stream[result[i].message_id].date
                   /\ Len(result[i].text) >= call.min_chars
                   /\ result[i].date >= cutoff
                   /\ \A j \in 1..result[i].message_id :
                          ~OlderThanCutoff(stream, j, cutoff)
            /\ \A i, j \in DOMAIN result :
                   i < j => result[i].message_id < result[j].message_id

\* C20's case: a message dated at the cutoff is collected, a too short one
\* is skipped, and the recent message behind an older one is not read.
C20_Witness ==
    /\ fn_pc = "returned"
    /\ call.days_back = 1
    /\ call.min_chars = 2
    /\ Len(call.stream) = 3
    /\ call.stream[1].date = Now - 1 /\ Len(call.stream[1].message) = 2
    /\ OlderThanCutoff(call.stream, 2, Now - 1)
    /\ call.stream[3].date = Now /\ Len(call.stream[3].message) = 2
    /\ Len(result) = 1
    /\ result[1].message_id = 1

\* C20's other case: an undated message and an object that is no message
\* are passed over and the messages behind them are collected, trimmed.
C20_WitnessSkips ==
    /\ fn_pc = "returned"
    /\ call.min_chars = 1
    /\ Len(call.stream) = 3
    /\ ~call.stream[1].is_message
    /\ call.stream[2].is_message /\ call.stream[2].date = NoDate
    /\ call.stream[3].message = <<" ", "a", " ">>
    /\ Len(result) = 1
    /\ result[1].text = <<"a">>

\* ------------------------------------------------------- transmitted texts

\* A transmission of the current send_markdown call has happened; sent_text
\* is the text of the latest one.
Transmitted == calllog # <<>>

\* C21: every text transmitted during a run, in rich mode (cleaned_text) or
\* in plain mode (plain_text), is at most MaxLen long: the chunk handed to
\* send_markdown is within the budget and neither sanitizing transform makes
\* it longer.
C21_TransmittedWithinBudget ==
    pc = "publish" =>
        /\ Len(text) <= MaxLen
        /\ Len(payload) <= Len(text)
        /\ Transmitted =>
               /\ Len(sent_text) <= Len(text)
               /\ Len(sent_text) <= MaxLen

\* C21's case: a chunk as long as the budget from which clean_markdown
\* removed an unpaired marker has been transmitted in rich mode.
C21_Witness ==
    /\ pc = "publish"
    /\ Transmitted
    /\ calllog[Len(calllog)].ev = "rich"
    /\ Len(text) = MaxLen
    /\ sent_text = clean_markdown(text)
    /\ Len(sent_text) < Len(text)

\* C21's other case: a chunk as long as the budget has been resent in plain
\* mode with its markup characters stripped.
C21_WitnessPlain ==
    /\ pc = "publish"
    /\ Transmitted
    /\ calllog[Len(calllog)].ev = "plain"
    /\ Len(text) = MaxLen
    /\ sent_text = strip_markup(text)
    /\ Len(sent_text) < Len(text)

\* ----------------------------------------------------- markers of the output

\* The lines of a text, as the destination sees them.
LinesOf(t) == SplitOn(t, <<NL>>, <<>>)

\* Both emphasis markers occur an even number of times on the line.
MarkersEven(line) == Count(line, STAR) % 2 = 0 /\ Count(line, UNDER) % 2 = 0

\* C22: for every input text, every line of what clean_markdown returns has
\* an even number of asterisks and an even number of underscores.
C22_OutputMarkersEven ==
    fn_pc = "returned" =>
        \A k \in DOMAIN LinesOf(result) : MarkersEven(LinesOf(result)[k])

\* C22's case: of a text of two lines, the line with an unpaired marker was
\* stripped of its markers and the line with a pair of markers was kept.
C22_Witness ==
    /\ fn_pc = "returned"
    /\ Len(LinesOf(call.text)) = 2
    /\ ~MarkersEven(LinesOf(call.text)[1])
    /\ Count(LinesOf(call.text)[2], STAR) = 2
    /\ Len(LinesOf(result)) = 2
    /\ Count(LinesOf(result)[1], STAR) = 0
    /\ Count(LinesOf(result)[1], UNDER) = 0
    /\ LinesOf(result)[2] = LinesOf(call.text)[2]

\* C22's other case: a doubled pair of markers was made single and the
\* line, its counts even, was kept with the single pair.
C22_WitnessDoubled ==
    /\ fn_pc = "returned"
    /\ Count(call.text, NL) = 0
    /\ Count(call.text, STAR) = 4
    /\ Count(call.text, UNDER) = 2
    /\ Count(result, STAR) = 2
    /\ Count(result, UNDER) = 2

====
